---- MODULE Spec2Model ----
(***************************************************************************)
(* The view layer of the blog application (blogicum/blog/views.py) as a    *)
(* state machine over the database tables the views read and write.        *)
(*                                                                         *)
(* State: the Post, Comment, Category and User tables, the primary-key     *)
(* counters of Post and Comment, the clock, and the response to the        *)
(* request being answered.  One action per view class; a request is        *)
(* handled atomically (one handler per request, no shared state besides    *)
(* the database) and its response is then delivered to the client.         *)
(*                                                                         *)
(* Abstractions: a post's title/text and a user's profile fields are one   *)
(* small-valued field each; a queryset is the set of primary keys it       *)
(* selects (ordering, pagination and the comment-count annotation do not   *)
(* change which rows are selected); mutating views are modelled for a POST *)
(* with valid form data.                                                   *)
(***************************************************************************)
EXTENDS Integers, FiniteSets, TLC

\* Rows ever inserted into the Post and Comment tables together.
MaxRecords == 2
\* The clock runs from 0 to MaxTime; publication dates lie in the same range.
MaxTime == 1

Users == {"u1", "u2"}
AnonymousUser == "anonymous"
Requesters == Users \cup {AnonymousUser}
\* Usernames a URL can carry: the existing users and one that does not exist.
Usernames == Users \cup {"nobody"}
Categories == {"c1", "c2"}
Texts == {"a", "b"}
Names == {"n0", "n1"}
PostIds == 1..MaxRecords
CommentIds == 1..MaxRecords
Times == 0..MaxTime
\* Publication dates a form can carry: the earliest and the latest clock value.
PubDates == {0, MaxTime}
NoUser == "none"
Http404 == 0

\* posts, comments : the Post and Comment tables, primary key |-> row
\* categories      : Category.is_published of each category
\* users           : the profile field of each user
\* nextPostId, nextCommentId : the next primary key of each table
\* now             : the clock
\* response        : the response to the request being answered, or NoRequest
VARIABLES posts, comments, categories, users, nextPostId, nextCommentId,
          now, response

vars == <<posts, comments, categories, users, nextPostId, nextCommentId,
          now, response>>

db == <<posts, comments, categories, users, nextPostId, nextCommentId>>

Post == [author : Users, category : Categories, is_published : BOOLEAN,
         pub_date : PubDates]

Comment == [author : Users, post : PostIds, is_published : BOOLEAN,
            text : Texts]

\* The fields of PostForm.
PostFormData == [category : Categories, is_published : BOOLEAN,
                 pub_date : PubDates]

\* A submitted creation form: the form's fields, and an author key the
\* client may add to the POST body.
PostData == [category : Categories, is_published : BOOLEAN,
             pub_date : PubDates, author : Users]

Statuses == {"200", "404", "403", "redirect_login", "redirect_post_detail",
             "redirect_profile", "redirect_success"}

Views == {"PostListView", "PostDetailView", "CategoryPostListView",
          "CreatePostView", "EditPostView", "DeletePostView", "ProfileView",
          "EditProfileView", "AddCommentView", "EditCommentView",
          "DeleteCommentView"}

Response == [view : Views, user : Requesters, post_id : PostIds \cup {0},
             comment_id : CommentIds \cup {0}, name : STRING,
             status : Statuses, object_list : SUBSET PostIds,
             comments : SUBSET CommentIds]

Resp(view, user, post_id, comment_id, name, status, object_list, cs) ==
    [view |-> view, user |-> user, post_id |-> post_id,
     comment_id |-> comment_id, name |-> name, status |-> status,
     object_list |-> object_list, comments |-> cs]

\* No request is being answered.
NoRequest == Resp("none", AnonymousUser, 0, 0, "", "none", {}, {})

Remove(table, pk) == [k \in DOMAIN table \ {pk} |-> table[k]]

Insert(table, pk, row) ==
    [k \in DOMAIN table \cup {pk} |-> IF k = pk THEN row ELSE table[k]]

EmptyTable == [k \in {} |-> 0]

TypeOK ==
    /\ DOMAIN posts \subseteq PostIds
    /\ \A p \in DOMAIN posts : posts[p] \in Post
    /\ DOMAIN comments \subseteq CommentIds
    /\ \A c \in DOMAIN comments : comments[c] \in Comment
    /\ categories \in [Categories -> BOOLEAN]
    /\ users \in [Users -> Names]
    /\ nextPostId \in 1..(MaxRecords + 1)
    /\ nextCommentId \in 1..(MaxRecords + 1)
    /\ now \in Times
    /\ response = NoRequest \/ response \in Response

----------------------------------------------------------------------------
\* Helpers of the views.

is_authenticated(user) == user \in Users

\* get_post_queryset(manager, filter_published): the rows of `manager`, and
\* with filter_published only those whose own flag and category flag hold
\* and whose publication date is not later than now.
get_post_queryset(manager, filter_published) ==
    {p \in manager :
        filter_published =>
            /\ posts[p].is_published
            /\ categories[posts[p].category]
            /\ posts[p].pub_date <= now}

get_object_or_404(queryset, pk) == IF pk \in queryset THEN pk ELSE Http404

Post_objects == DOMAIN posts

\* user.posts / category.posts / post.comments: the reverse relations.
user_posts(user) == {p \in DOMAIN posts : posts[p].author = user}

category_posts(slug) == {p \in DOMAIN posts : posts[p].category = slug}

post_comments(post) == {c \in DOMAIN comments : comments[c].post = post}

----------------------------------------------------------------------------
\* Read-only views.

PostListView_get_queryset == get_post_queryset(Post_objects, TRUE)

\* The post the detail page shows, or Http404.  The unfiltered lookup finds
\* the row; a requester who is not its author gets it only through the
\* filtered queryset.
\* Variant: the unfiltered lookup alone.
PostDetailView_get_object_unfiltered(user, post_id) ==
    get_object_or_404(get_post_queryset(Post_objects, FALSE), post_id)

\* Variant: the filtered lookup for every requester.
PostDetailView_get_object_filtered(user, post_id) ==
    get_object_or_404(get_post_queryset(Post_objects, TRUE), post_id)

PostDetailView_get_object(user, post_id) ==
    LET post == get_object_or_404(get_post_queryset(Post_objects, FALSE),
                                  post_id)
    IN  IF post = Http404
        THEN Http404
        ELSE IF posts[post].author # user
             THEN get_object_or_404(get_post_queryset(Post_objects, TRUE),
                                    post_id)
             ELSE post

\* context["comments"]: the published comments of the post shown.
PostDetailView_get_context_data(post) ==
    {c \in post_comments(post) : comments[c].is_published}

\* The category is looked up among the published ones; its posts are filtered.
CategoryPostListView_get_queryset(slug) ==
    IF slug \in Categories /\ categories[slug]
    THEN [status |-> "200",
          object_list |-> get_post_queryset(category_posts(slug), TRUE)]
    ELSE [status |-> "404", object_list |-> {}]

\* Variant: unfiltered for every authenticated requester.
ProfileView_get_queryset_any_login(request_user, username) ==
    IF username \in Users
    THEN [status |-> "200",
          object_list |->
              get_post_queryset(user_posts(username),
                                ~is_authenticated(request_user))]
    ELSE [status |-> "404", object_list |-> {}]

\* The profile's posts, unfiltered only for the authenticated owner.
ProfileView_get_queryset(request_user, username) ==
    IF username \in Users
    THEN [status |-> "200",
          object_list |->
              get_post_queryset(user_posts(username),
                                \/ ~is_authenticated(request_user)
                                \/ request_user # username)]
    ELSE [status |-> "404", object_list |-> {}]

Idle == response = NoRequest

PostListView(user) ==
    /\ Idle
    /\ response' = Resp("PostListView", user, 0, 0, "", "200",
                        PostListView_get_queryset, {})
    /\ UNCHANGED <<db, now>>

PostDetailView(user, post_id) ==
    /\ Idle
    /\ LET post == PostDetailView_get_object(user, post_id)
       IN  response' =
               IF post = Http404
               THEN Resp("PostDetailView", user, post_id, 0, "", "404", {}, {})
               ELSE Resp("PostDetailView", user, post_id, 0, "", "200",
                         {post}, PostDetailView_get_context_data(post))
    /\ UNCHANGED <<db, now>>

CategoryPostListView(user, slug) ==
    /\ Idle
    /\ LET r == CategoryPostListView_get_queryset(slug)
       IN  response' = Resp("CategoryPostListView", user, 0, 0, slug,
                            r.status, r.object_list, {})
    /\ UNCHANGED <<db, now>>

ProfileView(user, username) ==
    /\ Idle
    /\ LET r == ProfileView_get_queryset(user, username)
       IN  response' = Resp("ProfileView", user, 0, 0, username,
                            r.status, r.object_list, {})
    /\ UNCHANGED <<db, now>>

----------------------------------------------------------------------------
\* Access control of the mutating views.

\* AccessMixin.handle_no_permission, inherited by every view that does not
\* override it: PermissionDenied for an authenticated user, a redirect to the
\* login page for an anonymous one.
AccessMixin_handle_no_permission(user) ==
    IF is_authenticated(user) THEN "403" ELSE "redirect_login"

EditPostView_handle_no_permission(user) == "redirect_post_detail"

\* Variant: any authenticated user passes.
test_func_any_login(obj, user) == is_authenticated(user)

\* AuthorRequiredMixin.test_func on the object the view operates on.
test_func(obj, user) == obj.author = user

\* Variant: the login check without the author test.
dispatch_login_only(user, table, pk, no_permission) ==
    IF ~is_authenticated(user)
    THEN no_permission
    ELSE IF pk \notin DOMAIN table THEN "404" ELSE "ok"

\* dispatch of LoginRequiredMixin, then of UserPassesTestMixin: an anonymous
\* requester is refused before the object is looked up; test_func looks the
\* object up (404 when there is none) and compares its author.
dispatch(user, table, pk, no_permission) ==
    IF ~is_authenticated(user)
    THEN no_permission
    ELSE IF pk \notin DOMAIN table
         THEN "404"
         ELSE IF ~test_func(table[pk], user)
              THEN no_permission
              ELSE "ok"

\* Rows may be inserted while the tables hold fewer than MaxRecords keys ever
\* handed out.
CanInsert == (nextPostId - 1) + (nextCommentId - 1) < MaxRecords

----------------------------------------------------------------------------
\* Post views.

\* PostForm.save(commit=False): the instance with the form's fields set; the
\* author is not a field of the form.
PostForm_save(instance, data) ==
    [instance EXCEPT !.category = data.category,
                     !.is_published = data.is_published,
                     !.pub_date = data.pub_date]

NewPost == [author |-> NoUser, category |-> "c1", is_published |-> TRUE,
            pub_date |-> 0]

\* Variant: the author is taken from the submitted data.
CreatePostView_form_valid_form_author(user, data) ==
    [PostForm_save(NewPost, data) EXCEPT !.author = data.author]

\* form_valid: the saved post's author is the requester.
CreatePostView_form_valid(user, data) ==
    [PostForm_save(NewPost, data) EXCEPT !.author = user]

CreatePostView(user, data) ==
    /\ Idle
    /\ IF ~is_authenticated(user)
       THEN /\ response' = Resp("CreatePostView", user, 0, 0, "",
                                AccessMixin_handle_no_permission(user), {}, {})
            /\ UNCHANGED <<db, now>>
       ELSE /\ CanInsert
            /\ posts' = Insert(posts, nextPostId,
                               CreatePostView_form_valid(user, data))
            /\ nextPostId' = nextPostId + 1
            /\ response' = Resp("CreatePostView", user, nextPostId, 0, user,
                                "redirect_profile", {}, {})
            /\ UNCHANGED <<comments, categories, users, nextCommentId, now>>

\* POST with valid data; the form is saved onto the post found by post_id.
EditPostView(user, post_id, data) ==
    /\ Idle
    /\ LET d == dispatch(user, posts, post_id,
                         EditPostView_handle_no_permission(user))
       IN  IF d = "ok"
           THEN /\ posts' = [posts EXCEPT
                               ![post_id] = PostForm_save(posts[post_id], data)]
                /\ response' = Resp("EditPostView", user, post_id, 0, "",
                                    "redirect_success", {}, {})
           ELSE /\ posts' = posts
                /\ response' = Resp("EditPostView", user, post_id, 0, "",
                                    d, {}, {})
    /\ UNCHANGED <<comments, categories, users, nextPostId, nextCommentId,
                   now>>

\* DeleteView removes the Post row.  The comments of the post are left in
\* place: the Comment model's on_delete rule is not part of views.py, and
\* the data model has a comment deleted by its author only.
DeletePostView(user, post_id) ==
    /\ Idle
    /\ LET d == dispatch(user, posts, post_id,
                         AccessMixin_handle_no_permission(user))
       IN  IF d = "ok"
           THEN /\ posts' = Remove(posts, post_id)
                /\ response' = Resp("DeletePostView", user, post_id, 0, user,
                                    "redirect_profile", {}, {})
           ELSE /\ posts' = posts
                /\ response' = Resp("DeletePostView", user, post_id, 0, "",
                                    d, {}, {})
    /\ UNCHANGED <<comments, categories, users, nextPostId, nextCommentId,
                   now>>

----------------------------------------------------------------------------
\* Profile view.

\* Variant: the user the URL names.
EditProfileView_get_object_from_url(request_user, username) == username

\* EditProfileView.get_object: the requesting user, whatever the URL names.
EditProfileView_get_object(request_user, username) == request_user

EditProfileView(user, username, name) ==
    /\ Idle
    /\ IF ~is_authenticated(user)
       THEN /\ users' = users
            /\ response' = Resp("EditProfileView", user, 0, 0, username,
                                AccessMixin_handle_no_permission(user), {}, {})
       ELSE /\ users' = [users EXCEPT
                           ![EditProfileView_get_object(user, username)] = name]
            /\ response' = Resp("EditProfileView", user, 0, 0, username,
                                "redirect_profile", {}, {})
    /\ UNCHANGED <<posts, comments, categories, nextPostId, nextCommentId,
                   now>>

----------------------------------------------------------------------------
\* Comment views.

\* CommentForm.save(commit=False) on a new comment: the text; the row is
\* published by default.
CommentForm_save(instance, text) == [instance EXCEPT !.text = text]

NewComment == [author |-> NoUser, post |-> 0, is_published |-> TRUE,
               text |-> "a"]

\* AddCommentView.form_valid: the post is looked up by id among all posts.
AddCommentView_get_post(user, post_id) ==
    get_object_or_404(Post_objects, post_id)

AddCommentView_form_valid(user, post, text) ==
    [CommentForm_save(NewComment, text) EXCEPT !.post = post,
                                               !.author = user]

AddCommentView(user, post_id, text) ==
    /\ Idle
    /\ IF ~is_authenticated(user)
       THEN /\ response' = Resp("AddCommentView", user, post_id, 0, "",
                                AccessMixin_handle_no_permission(user), {}, {})
            /\ UNCHANGED <<db, now>>
       ELSE LET post == AddCommentView_get_post(user, post_id)
            IN  IF post = Http404
                THEN /\ response' = Resp("AddCommentView", user, post_id, 0,
                                         "", "404", {}, {})
                     /\ UNCHANGED <<db, now>>
                ELSE /\ CanInsert
                     /\ comments' = Insert(comments, nextCommentId,
                            AddCommentView_form_valid(user, post, text))
                     /\ nextCommentId' = nextCommentId + 1
                     /\ response' = Resp("AddCommentView", user, post_id,
                                         nextCommentId, "",
                                         "redirect_post_detail", {}, {})
                     /\ UNCHANGED <<posts, categories, users, nextPostId, now>>

\* The comment views take no handle_no_permission of their own, and
\* AccessMixin comes before CommentMixin in their method resolution order.
\* The comment is looked up by its primary key.
EditCommentView(user, comment_id, text) ==
    /\ Idle
    /\ LET d == dispatch(user, comments, comment_id,
                         AccessMixin_handle_no_permission(user))
       IN  IF d = "ok"
           THEN /\ comments' = [comments EXCEPT ![comment_id] =
                                   CommentForm_save(comments[comment_id], text)]
                /\ response' = Resp("EditCommentView", user,
                                    comments[comment_id].post, comment_id, "",
                                    "redirect_post_detail", {}, {})
           ELSE /\ comments' = comments
                /\ response' = Resp("EditCommentView", user, 0, comment_id,
                                    "", d, {}, {})
    /\ UNCHANGED <<posts, categories, users, nextPostId, nextCommentId, now>>

DeleteCommentView(user, comment_id) ==
    /\ Idle
    /\ LET d == dispatch(user, comments, comment_id,
                         AccessMixin_handle_no_permission(user))
       IN  IF d = "ok"
           THEN /\ comments' = Remove(comments, comment_id)
                /\ response' = Resp("DeleteCommentView", user,
                                    comments[comment_id].post, comment_id, "",
                                    "redirect_post_detail", {}, {})
           ELSE /\ comments' = comments
                /\ response' = Resp("DeleteCommentView", user, 0, comment_id,
                                    "", d, {}, {})
    /\ UNCHANGED <<posts, categories, users, nextPostId, nextCommentId, now>>

----------------------------------------------------------------------------
\* The environment: the response reaches the client; time passes.

Deliver ==
    /\ ~Idle
    /\ response' = NoRequest
    /\ UNCHANGED <<db, now>>

Tick ==
    /\ Idle
    /\ now < MaxTime
    /\ now' = now + 1
    /\ UNCHANGED <<db, response>>

----------------------------------------------------------------------------
\* The database when the first request arrives: any contents the views can
\* leave behind.  Primary keys are handed out in order and never reused, so a
\* table holds rows under some of the keys below its counter; a comment
\* refers to a post that was inserted before it.
Tables(keys, rows) == UNION {[D -> rows] : D \in SUBSET keys}

Init ==
    /\ \E np \in 0..MaxRecords :
         \E nc \in 0..(MaxRecords - np) :
            /\ nextPostId = np + 1
            /\ nextCommentId = nc + 1
            /\ posts \in Tables(1..np, Post)
            /\ comments \in Tables(1..nc, {c \in Comment : c.post \in 1..np})
    /\ categories = [c \in Categories |-> c = "c1"]
    /\ users \in [Users -> Names]
    /\ now \in Times
    /\ response = NoRequest

\* The profile fields play no part in a post or comment request.
InitBlog == Init /\ users = [u \in Users |-> "n0"]

NextRead ==
    \/ \E user \in Requesters : PostListView(user)
    \/ \E user \in Requesters, post_id \in PostIds :
           PostDetailView(user, post_id)
    \/ \E user \in Requesters, slug \in Categories :
           CategoryPostListView(user, slug)
    \/ \E user \in Requesters, username \in Usernames :
           ProfileView(user, username)

NextWrite ==
    \/ \E user \in Requesters, data \in PostData :
           CreatePostView(user, data)
    \/ \E user \in Requesters, post_id \in PostIds, data \in PostFormData :
           EditPostView(user, post_id, data)
    \/ \E user \in Requesters, post_id \in PostIds :
           DeletePostView(user, post_id)
    \/ \E user \in Requesters, post_id \in PostIds, text \in Texts :
           AddCommentView(user, post_id, text)
    \/ \E user \in Requesters, comment_id \in CommentIds, text \in Texts :
           EditCommentView(user, comment_id, text)
    \/ \E user \in Requesters, comment_id \in CommentIds :
           DeleteCommentView(user, comment_id)

NextProfile ==
    \E user \in Requesters, username \in Users, name \in Names :
        EditProfileView(user, username, name)

Next == NextRead \/ NextWrite \/ NextProfile \/ Deliver \/ Tick

Spec == Init /\ [][Next]_vars

\* The views by the tables they write.  Init holds every database the views
\* can produce, so each family is explored from all of them.

SpecRead == InitBlog /\ [][NextRead \/ Deliver \/ Tick]_vars

\* No mutating view reads the clock: it is held at 0, where a post dated
\* MaxTime is still in the future.
InitWrite == InitBlog /\ now = 0

SpecWrite == InitWrite /\ [][NextWrite \/ Deliver]_vars

SpecProfile == Init /\ [][NextProfile \/ Deliver \/ Tick]_vars

----------------------------------------------------------------------------
\* Properties.

\* A post is publicly visible: its own flag and its category's flag are set
\* and its publication date is not in the future.
PubliclyVisible(p) ==
    /\ posts[p].is_published
    /\ categories[posts[p].category]
    /\ posts[p].pub_date <= now

\* The post a detail request named exists and is hidden from the public.
DetailOfHiddenPost ==
    /\ response.view = "PostDetailView"
    /\ response.post_id \in DOMAIN posts
    /\ ~PubliclyVisible(response.post_id)

\* C1: a detail request for a post that is not publicly visible, by anyone
\* who is not its author (an anonymous visitor included), is answered 404
\* and returns no post.
C1_HiddenPostIs404ForNonAuthor ==
    (DetailOfHiddenPost /\ posts[response.post_id].author # response.user)
        => (response.status = "404" /\ response.object_list = {})

C1_Witness ==
    /\ DetailOfHiddenPost
    /\ response.user \in Users
    /\ posts[response.post_id].author # response.user
    /\ posts[response.post_id].is_published
    /\ response.status = "404"

\* C4: every post returned by the index, by a category page, and by a
\* profile page requested by anyone but the profile's owner is publicly
\* visible at the time of the request; the page of an unpublished category is
\* a 404 with no posts.
C4_PublicListingsShowVisiblePostsOnly ==
    /\ (\/ response.view \in {"PostListView", "CategoryPostListView"}
        \/ response.view = "ProfileView" /\ response.user # response.name)
           => \A p \in response.object_list :
                  p \in DOMAIN posts /\ PubliclyVisible(p)
    /\ (response.view = "CategoryPostListView" /\ ~categories[response.name])
           => (response.status = "404" /\ response.object_list = {})

C4_Witness ==
    /\ response.view = "ProfileView"
    /\ response.user \in Users
    /\ response.user # response.name
    /\ response.object_list # {}
    /\ \E p \in user_posts(response.name) : ~PubliclyVisible(p)

\* C5: the author's detail request for their own post returns it whatever
\* its flags and date, and the authenticated author's request for their own
\* profile lists every post of theirs.
C5_AuthorAlwaysSeesOwnPost ==
    /\ (/\ response.view = "PostDetailView"
        /\ response.post_id \in DOMAIN posts
        /\ posts[response.post_id].author = response.user)
           => (response.status = "200"
               /\ response.object_list = {response.post_id})
    /\ (/\ response.view = "ProfileView"
        /\ response.user \in Users
        /\ response.name = response.user)
           => (response.status = "200"
               /\ response.object_list = user_posts(response.user))

C5_Witness ==
    /\ DetailOfHiddenPost
    /\ posts[response.post_id].author = response.user
    /\ response.status = "200"

\* C6: when the author of an unpublished comment requests the detail page of
\* the post it belongs to, the comment list of the response contains it.
C6_AuthorSeesOwnUnpublishedComment ==
    (response.view = "PostDetailView" /\ response.status = "200")
        => \A c \in post_comments(response.post_id) :
               (comments[c].author = response.user
                /\ ~comments[c].is_published)
                   => c \in response.comments

\* C2: a post changes or disappears only in an EditPostView or
\* DeletePostView request for that post made by its author; every other
\* request leaves it as it was.
C2_OnlyAuthorMutatesPost ==
    [][\A p \in DOMAIN posts :
          (p \notin DOMAIN posts' \/ posts'[p] # posts[p])
              => /\ response'.view \in {"EditPostView", "DeletePostView"}
                 /\ response'.post_id = p
                 /\ response'.user = posts[p].author]_vars

C2_Witness ==
    /\ response.view \in {"EditPostView", "DeletePostView"}
    /\ response.user \in Users
    /\ response.post_id \in DOMAIN posts
    /\ posts[response.post_id].author # response.user
    /\ response.status \in {"403", "redirect_post_detail"}

C7_DeniedMutationRedirectsToDetail ==
    /\ (/\ response.view \in {"EditPostView", "DeletePostView"}
        /\ response.user \in Users
        /\ response.post_id \in DOMAIN posts
        /\ posts[response.post_id].author # response.user)
           => response.status = "redirect_post_detail"
    /\ (/\ response.view \in {"EditCommentView", "DeleteCommentView"}
        /\ response.user \in Users
        /\ response.comment_id \in DOMAIN comments
        /\ comments[response.comment_id].author # response.user)
           => response.status = "redirect_post_detail"

\* C8: a comment is inserted only by an AddCommentView request of an
\* authenticated user, with that user as its author, on a post that user can
\* view when the request is made (publicly visible, or their own).
C8_CommentOnlyOnVisiblePost ==
    [][\A c \in DOMAIN comments' \ DOMAIN comments :
          /\ response'.view = "AddCommentView"
          /\ response'.user \in Users
          /\ comments'[c].author = response'.user
          /\ comments'[c].post \in DOMAIN posts
          /\ \/ PubliclyVisible(comments'[c].post)
             \/ posts[comments'[c].post].author = response'.user]_vars

\* C9: a post is inserted only by a CreatePostView request of an
\* authenticated user and its author is that user; an anonymous visitor's
\* request inserts nothing.
C9_CreatedPostBelongsToRequester ==
    [][/\ \A p \in DOMAIN posts' \ DOMAIN posts :
             /\ response'.view = "CreatePostView"
             /\ response'.user \in Users
             /\ posts'[p].author = response'.user
       /\ (response'.view = "CreatePostView"
           /\ response'.user = AnonymousUser) => posts' = posts]_vars

C9_Witness ==
    /\ response.view = "CreatePostView"
    /\ response.status = "redirect_profile"
    /\ response.post_id \in DOMAIN posts
    /\ posts[response.post_id].author = response.user

\* C10: a user's profile fields change only in an EditProfileView request
\* made by that user, whichever user the URL names.
C10_ProfileEditedOnlyByOwner ==
    [][\A u \in Users :
          users'[u] # users[u]
              => /\ response'.view = "EditProfileView"
                 /\ response'.user = u]_vars

C10_Witness ==
    /\ response.view = "EditProfileView"
    /\ response.user \in Users
    /\ response.name \in Users
    /\ response.name # response.user
    /\ response.status = "redirect_profile"
    /\ users[response.user] # users[response.name]

====
